---- MODULE Spec2Model ----
(***************************************************************************)
(* DFA minimization pipeline of src/app.py: the transition-line parser,   *)
(* the reachability reduction, the partition refinement loop, the         *)
(* quotient construction and the summary.  A text line is a sequence of   *)
(* one-character tokens; labels are the strings obtained by joining the   *)
(* stripped tokens of a field.                                            *)
(***************************************************************************)
EXTENDS Integers, Sequences, FiniteSets, TLC

VARIABLES states, alphabet, start_state, finals, transition_input,
          dfa, invalid, ln, pc, exc,
          reachable_states, partitions, changed,
          part_map, minimized, start_p, final_parts

vars == <<states, alphabet, start_state, finals, transition_input,
          dfa, invalid, ln, pc, exc,
          reachable_states, partitions, changed,
          part_map, minimized, start_p, final_parts>>

(* ---------------------------------------------------------------------- *)
(* Bounds                                                                 *)
(* ---------------------------------------------------------------------- *)
\* number of transition lines of a generated table input
MaxLines == 3
\* number of lines of a generated free-form (possibly malformed) input
MaxParseLines == 2
\* length of the input strings the automata are run on
MaxStrLen == 3

(* ---------------------------------------------------------------------- *)
(* Python values                                                          *)
(* ---------------------------------------------------------------------- *)
\* Python's None, as the value of dict.get on a missing key
None == "<None>"
\* idx = None in the signature (kept an integer so signatures compare)
NoIdx == -1
\* the empty dict
EmptyDict == [k \in {} |-> k]
\* truthiness of a label: neither None nor the empty string
Truthy(v) == v # None /\ v # ""
\* no exception raised
NoExc == <<"", 0>>

Range(f) == {f[i] : i \in DOMAIN f}

(* ---------------------------------------------------------------------- *)
(* String helpers: str.strip, str.split, "in"                             *)
(* ---------------------------------------------------------------------- *)
IsSpace(c) == c = " "

RECURSIVE LStrip(_)
LStrip(s) == IF s # <<>> /\ IsSpace(Head(s)) THEN LStrip(Tail(s)) ELSE s

RECURSIVE RStrip(_)
RStrip(s) ==
  IF s # <<>> /\ IsSpace(s[Len(s)]) THEN RStrip(SubSeq(s, 1, Len(s) - 1)) ELSE s

\* str.strip()
Strip(s) == RStrip(LStrip(s))

\* str.split(sep): the fields between the occurrences of sep
RECURSIVE Split(_, _)
Split(s, sep) ==
  IF s = <<>> THEN << <<>> >>
  ELSE LET rest == Split(Tail(s), sep)
       IN  IF Head(s) = sep
           THEN << <<>> >> \o rest
           ELSE << <<Head(s)>> \o rest[1] >> \o Tail(rest)

\* sep in line
Contains(s, c) == \E i \in 1..Len(s) : s[i] = c

\* the string made of the tokens of s
RECURSIVE Join(_)
Join(s) == IF s = <<>> THEN "" ELSE Head(s) \o Join(Tail(s))

(* ---------------------------------------------------------------------- *)
(* dict helpers                                                           *)
(* ---------------------------------------------------------------------- *)
\* dfa.get(s, {}).get(a)
Tgt(d, s, a) ==
  IF s \in DOMAIN d /\ a \in DOMAIN d[s] THEN d[s][a] ELSE None

\* dfa.setdefault(state, {})[symbol] = target
SetTransition(d, state, symbol, target) ==
  LET inner == IF state \in DOMAIN d THEN d[state] ELSE EmptyDict
      upd   == [a \in DOMAIN inner \cup {symbol} |->
                  IF a = symbol THEN target ELSE inner[a]]
  IN  [k \in DOMAIN d \cup {state} |-> IF k = state THEN upd ELSE d[k]]

\* dfa = {s: {} for s in states}
InitialDfa(sts) == [s \in Range(sts) |-> EmptyDict]

(* ---------------------------------------------------------------------- *)
(* Inputs: the five text fields after lines 25-27 split them              *)
(* ---------------------------------------------------------------------- *)
Labels == {"A", "B", "C"}
Symbols == {"0", "1"}

\* a transition line "state,symbol=target"
Line(s, a, t) == <<s, ",", a, "=", t>>

\* the (state, symbol) keys of a generated table, in line order
KeySeq == << <<"A", "0">>, <<"A", "1">>, <<"B", "0">>,
             <<"B", "1">>, <<"C", "0">> >>

\* the lines of table t: one line per key with a target, in key order
RECURSIVE TableLines(_, _)
TableLines(t, k) ==
  IF k > Len(KeySeq) THEN <<>>
  ELSE (IF t[k] = None THEN <<>>
        ELSE <<Line(KeySeq[k][1], KeySeq[k][2], t[k])>>) \o TableLines(t, k + 1)

Tables ==
  {t \in [1..Len(KeySeq) -> Labels \cup {None}] :
     Cardinality({k \in 1..Len(KeySeq) : t[k] # None}) <= MaxLines}

Input(sts, alph, st, fin, lines) ==
  [states |-> sts, alphabet |-> alph, start_state |-> st, finals |-> fin,
   transition_input |-> lines]

\* the declared states with the start label: the declared states are a
\* prefix of A, B, C, so that the start, a source or a target may be an
\* undeclared label; with the alphabet "0" the symbol "1" is undeclared
Declared ==
  { <<<<"A">>, "A">>, <<<<"A">>, "C">>, <<<<"A", "B">>, "A">>,
    <<<<"A", "B">>, "C">>, <<<<"A", "B", "C">>, "A">> }

TableInputs ==
  {Input(ds[1], alph, ds[2], fin, TableLines(t, 1)) :
     ds \in Declared,
     alph \in {<<"0">>, <<"0", "1">>},
     fin \in SUBSET Labels,
     t \in Tables}

\* the line shapes of the free-form inputs, malformed ones included
LineForms ==
  { Line("A", "0", "B"),
    Line("B", "0", "A"),
    <<" ", "A", " ", ",", "0", " ", "=", " ", "B", " ">>,
    <<"A", ",", "0", "=">>,
    <<"A", ",", "0", "=", "B", ",", "C">>,
    <<"A", ",", "0", ",", "B">>,
    <<"A", ",", "0", "=", "B", "=", "C">>,
    <<"A", "=", "B", ",", "0">>,
    <<"A", ",", "0", ",", "1", "=", "B">>,
    <<"A", "0", "=", "B">>,
    <<" ">>,
    <<>> }

RECURSIVE SeqsUpTo(_, _)
SeqsUpTo(S, n) ==
  IF n = 0 THEN {<<>>}
  ELSE LET shorter == SeqsUpTo(S, n - 1)
       IN  shorter \cup {Append(q, x) : q \in shorter, x \in S}

ParseInputs ==
  {Input(<<"A", "B">>, <<"0">>, "A", fin, lines) :
     fin \in {{}, {"B"}},
     lines \in SeqsUpTo(LineForms, MaxParseLines)}

\* empty state set, empty alphabet, repeated declarations
DegenerateInputs ==
  {Input(sts, alph, st, fin, lines) :
     sts \in {<<>>, <<"A", "B">>, <<"A", "A", "B">>},
     alph \in {<<>>, <<"0", "0">>},
     st \in {"A", "C"},
     fin \in {{}, {"A"}, {"C"}},
     lines \in {<<>>, <<Line("A", "0", "B")>>,
                <<Line("A", "0", "B"), Line("A", "0", "A")>>}}

\* the scenario of the specification's section 8
Scenario ==
  Input(<<"A", "B", "C", "D">>, <<"0", "1">>, "A", {"C", "D"},
        << Line("A", "0", "B"), Line("A", "1", "C"),
           Line("B", "0", "A"), Line("B", "1", "D"),
           Line("C", "0", "D"), Line("C", "1", "C"),
           Line("D", "0", "C"), Line("D", "1", "D") >>)

Inputs == TableInputs \cup ParseInputs \cup DegenerateInputs \cup {Scenario}

(* ---------------------------------------------------------------------- *)
(* Initial state: the fields are split and dfa = {s: {} for s in states}  *)
(* ---------------------------------------------------------------------- *)
Init ==
  \E inp \in Inputs :
    /\ states = inp.states
    /\ alphabet = inp.alphabet
    /\ start_state = inp.start_state
    /\ finals = inp.finals
    /\ transition_input = inp.transition_input
    /\ dfa = InitialDfa(inp.states)
    /\ invalid = <<>>
    /\ ln = 1
    /\ pc = "parse"
    /\ exc = NoExc
    /\ reachable_states = {}
    /\ partitions = <<>>
    /\ changed = TRUE
    /\ part_map = EmptyDict
    /\ minimized = EmptyDict
    /\ start_p = None
    /\ final_parts = {}

\* an uncaught exception ends the run
Raise(type, line) ==
  /\ pc' = "crashed"
  /\ exc' = <<type, line>>

(* ---------------------------------------------------------------------- *)
(* Table parser: one iteration of the loop of lines 31-38                 *)
(* ---------------------------------------------------------------------- *)
ParseLine ==
  /\ pc = "parse"
  /\ ln <= Len(transition_input)
  /\ LET line == Strip(transition_input[ln])
         eq   == Split(line, "=")
         lhs  == Split(eq[1], ",")
     IN  IF line = <<>> \/ ~Contains(line, "=") \/ ~Contains(line, ",")
         THEN /\ invalid' = Append(invalid, Join(line))
              /\ ln' = ln + 1
              /\ UNCHANGED <<dfa, pc, exc>>
         ELSE IF Len(eq) # 2
         THEN /\ Raise("ValueError", 36)
              /\ UNCHANGED <<dfa, invalid, ln>>
         ELSE IF Len(lhs) # 2
         THEN /\ Raise("ValueError", 37)
              /\ UNCHANGED <<dfa, invalid, ln>>
         ELSE /\ dfa' = SetTransition(dfa, Join(Strip(lhs[1])), Join(Strip(lhs[2])),
                                      Join(Strip(eq[2])))
              /\ ln' = ln + 1
              /\ UNCHANGED <<invalid, pc, exc>>
  /\ UNCHANGED <<states, alphabet, start_state, finals, transition_input,
                 reachable_states, partitions, changed,
                 part_map, minimized, start_p, final_parts>>

(* ---------------------------------------------------------------------- *)
(* Reachability reducer: lines 41-56                                      *)
(* ---------------------------------------------------------------------- *)
\* the elements of a set in some order (a dict or set is iterated)
RECURSIVE SetToSeq(_)
SetToSeq(S) ==
  IF S = {} THEN <<>>
  ELSE LET x == CHOOSE y \in S : TRUE IN <<x>> \o SetToSeq(S \ {x})

\* the targets pushed for u: for a in dfa.get(u, {}), v truthy and not seen
Pushed(d, u, seen) ==
  IF u \in DOMAIN d
  THEN SetToSeq({d[u][a] : a \in {b \in DOMAIN d[u] :
                                    Truthy(d[u][b]) /\ d[u][b] \notin seen}})
  ELSE <<>>

\* the while loop of reachable(): pop, skip if seen, mark, push
RECURSIVE ReachLoop(_, _, _)
ReachLoop(d, seen, stack) ==
  IF stack = <<>> THEN seen
  ELSE LET u    == stack[Len(stack)]
           rest == SubSeq(stack, 1, Len(stack) - 1)
       IN  IF u \in seen
           THEN ReachLoop(d, seen, rest)
           ELSE ReachLoop(d, seen \cup {u}, rest \o Pushed(d, u, seen \cup {u}))

\* reachable(start, dfa)
reachable(start, d) == ReachLoop(d, {}, <<start>>)

\* dfa = {s: dfa[s] for s in dfa if s in reachable_states}
RestrictDfa(d, reach) == [s \in DOMAIN d \cap reach |-> d[s]]

\* states = [s for s in states if s in reachable_states]
RestrictStates(sts, reach) == SelectSeq(sts, LAMBDA s : s \in reach)

Reduce ==
  /\ pc = "parse"
  /\ ln > Len(transition_input)
  /\ LET reach == reachable(start_state, dfa)
     IN  /\ reachable_states' = reach
         /\ dfa' = RestrictDfa(dfa, reach)
         /\ states' = RestrictStates(states, reach)
  /\ pc' = "partition"
  /\ UNCHANGED <<alphabet, start_state, finals, transition_input, invalid, ln,
                 exc, partitions, changed, part_map, minimized, start_p,
                 final_parts>>

(* ---------------------------------------------------------------------- *)
(* Partition refiner: lines 134-162                                       *)
(* ---------------------------------------------------------------------- *)
\* a partition that starts as one block of all states, acceptance ignored
InitialPartitionOneBlock(sts, fin) ==
  IF sts # <<>> THEN <<Range(sts)>> ELSE <<>>

\* lines 134-139: the accepting block, then the non-accepting block
InitialPartition(sts, fin) ==
  LET non_final == SelectSeq(sts, LAMBDA s : s \notin fin)
  IN  (IF fin # {} THEN <<fin \cap Range(sts)>> ELSE <<>>)
      \o (IF non_final # <<>> THEN <<Range(non_final)>> ELSE <<>>)

InitPartition ==
  /\ pc = "partition"
  /\ partitions' = InitialPartition(states, finals)
  /\ changed' = TRUE
  /\ pc' = "refine"
  /\ UNCHANGED <<states, alphabet, start_state, finals, transition_input, dfa,
                 invalid, ln, exc, reachable_states, part_map, minimized,
                 start_p, final_parts>>

\* idx initialised to 0 instead of None: a missing target looks like block 0
BlockIndexDefaultZero(tgt, parts) ==
  IF \E i \in 1..Len(parts) : tgt \in parts[i]
  THEN (CHOOSE i \in 1..Len(parts) :
          /\ tgt \in parts[i]
          /\ \A j \in 1..(i - 1) : tgt \notin parts[j]) - 1
  ELSE 0

\* lines 151-155: the index of the first block holding tgt, else None
BlockIndex(tgt, parts) ==
  IF \E i \in 1..Len(parts) : tgt \in parts[i]
  THEN (CHOOSE i \in 1..Len(parts) :
          /\ tgt \in parts[i]
          /\ \A j \in 1..(i - 1) : tgt \notin parts[j]) - 1
  ELSE NoIdx

\* sig = [idx] instead of sig.append(idx): only the last symbol is kept
SignatureLastSymbol(s, parts, d, alph) ==
  [k \in {n \in 1..Len(alph) : n = Len(alph)} |->
     IF \E i \in 1..Len(parts) : Tgt(d, s, alph[k]) \in parts[i]
     THEN (CHOOSE i \in 1..Len(parts) : Tgt(d, s, alph[k]) \in parts[i]) - 1
     ELSE NoIdx]

\* lines 148-157: the signature of s against the current partition
Signature(s, parts, d, alph) ==
  [k \in 1..Len(alph) |-> BlockIndex(Tgt(d, s, alph[k]), parts)]

\* lines 146-158: the members of part grouped by signature
Groups(part, parts, d, alph) ==
  {{s \in part : Signature(s, parts, d, alph) = Signature(r, parts, d, alph)} :
     r \in part}

\* the orders in which groups.values() may list the groups (dict order
\* follows the iteration order of the set part)
Orderings(G) ==
  {q \in [1..Cardinality(G) -> G] :
     \A i, j \in 1..Cardinality(G) : i # j => q[i] # q[j]}

\* the lists new_parts may hold after the first n blocks are scanned
RECURSIVE NewParts(_, _, _, _)
NewParts(parts, d, alph, n) ==
  IF n = 0 THEN {<<>>}
  ELSE {pre \o q : pre \in NewParts(parts, d, alph, n - 1),
                   q \in Orderings(Groups(parts[n], parts, d, alph))}

\* line 159, over the round: some block has more than one group
Splits(parts, d, alph) ==
  \E n \in 1..Len(parts) : Cardinality(Groups(parts[n], parts, d, alph)) > 1

\* one iteration of the while loop of lines 142-162
RefineRound ==
  /\ pc = "refine"
  /\ changed
  /\ changed' = Splits(partitions, dfa, alphabet)
  /\ partitions' \in NewParts(partitions, dfa, alphabet, Len(partitions))
  /\ UNCHANGED <<states, alphabet, start_state, finals, transition_input, dfa,
                 invalid, ln, pc, exc, reachable_states, part_map, minimized,
                 start_p, final_parts>>

(* ---------------------------------------------------------------------- *)
(* Quotient builder: lines 164-175                                        *)
(* ---------------------------------------------------------------------- *)
\* f"P{i}"
BlockName(i) == "P" \o ToString(i)

\* lines 164-167: each state mapped to the name of the last block holding it
PartMap(parts) ==
  [s \in UNION Range(parts) |->
     BlockName((CHOOSE i \in 1..Len(parts) :
                  /\ s \in parts[i]
                  /\ \A j \in (i + 1)..Len(parts) : s \notin parts[j]) - 1)]

\* line 171: the members next(iter(p)) may return, one per block
Representatives(parts) ==
  {r \in [1..Len(parts) -> UNION Range(parts)] :
     \A i \in 1..Len(parts) : r[i] \in parts[i]}

\* line 175 raises KeyError: a truthy target that is no key of part_map
MissingKey(rep, pm, d, alph) ==
  \E i \in 1..Len(rep), k \in 1..Len(alph) :
     /\ Truthy(Tgt(d, rep[i], alph[k]))
     /\ Tgt(d, rep[i], alph[k]) \notin DOMAIN pm

\* lines 168-175: the table of the minimized DFA built from the representatives
Minimized(rep, pm, d, alph) ==
  [name \in {BlockName(i - 1) : i \in 1..Len(rep)} |->
     LET i == CHOOSE j \in 1..Len(rep) : BlockName(j - 1) = name
     IN  [a \in Range(alph) |->
            IF Truthy(Tgt(d, rep[i], a)) THEN pm[Tgt(d, rep[i], a)] ELSE None]]

Quotient ==
  /\ pc = "refine"
  /\ ~changed
  /\ part_map' = PartMap(partitions)
  /\ IF \E i \in 1..Len(partitions) : partitions[i] = {}
     THEN /\ Raise("StopIteration", 171)
          /\ UNCHANGED minimized
     ELSE \E rep \in Representatives(partitions) :
            IF MissingKey(rep, PartMap(partitions), dfa, alphabet)
            THEN /\ Raise("KeyError", 175)
                 /\ UNCHANGED minimized
            ELSE /\ minimized' = Minimized(rep, PartMap(partitions), dfa, alphabet)
                 /\ pc' = "draw"
                 /\ UNCHANGED exc
  /\ UNCHANGED <<states, alphabet, start_state, finals, transition_input, dfa,
                 invalid, ln, reachable_states, partitions, changed, start_p,
                 final_parts>>

(* ---------------------------------------------------------------------- *)
(* Presentation: only the start-node lookup of lines 109-113              *)
(* ---------------------------------------------------------------------- *)
\* draw_dfa_graph(minimized, ..., part_map=part_map): part_map[start_state]
DrawMinimized ==
  /\ pc = "draw"
  /\ IF start_state # "" /\ DOMAIN part_map # {} /\ start_state \notin DOMAIN part_map
     THEN Raise("KeyError", 111)
     ELSE pc' = "summary" /\ UNCHANGED exc
  /\ UNCHANGED <<states, alphabet, start_state, finals, transition_input, dfa,
                 invalid, ln, reachable_states, partitions, changed, part_map,
                 minimized, start_p, final_parts>>

(* ---------------------------------------------------------------------- *)
(* Summary: lines 190-192                                                 *)
(* ---------------------------------------------------------------------- *)
\* part_map.get(start_state)
StartPart(pm, st) == IF st \in DOMAIN pm THEN pm[st] ELSE None

\* {part_map[s] for s in finals if s in part_map}; sorted() only orders it
FinalParts(pm, fin) == {pm[s] : s \in fin \cap DOMAIN pm}

Summary ==
  /\ pc = "summary"
  /\ start_p' = StartPart(part_map, start_state)
  /\ final_parts' = FinalParts(part_map, finals)
  /\ pc' = "done"
  /\ UNCHANGED <<states, alphabet, start_state, finals, transition_input, dfa,
                 invalid, ln, exc, reachable_states, partitions, changed,
                 part_map, minimized>>

Next ==
  \/ ParseLine
  \/ Reduce
  \/ InitPartition
  \/ RefineRound
  \/ Quotient
  \/ DrawMinimized
  \/ Summary

Spec == Init /\ [][Next]_vars

(* ---------------------------------------------------------------------- *)
(* Automata semantics used by the properties                              *)
(* ---------------------------------------------------------------------- *)
\* the declared alphabet and the input strings over it, up to MaxStrLen
Sigma == Range(alphabet)
Strings == SeqsUpTo(Sigma, MaxStrLen)

\* the states that are partitioned: the reduced list `states`
Q == Range(states)

\* one step of the reduced original DFA; a missing (or empty) target is dead
Delta(s, a) == IF s # None /\ Truthy(Tgt(dfa, s, a)) THEN Tgt(dfa, s, a) ELSE None

RECURSIVE RunOrig(_, _)
RunOrig(s, w) == IF w = <<>> THEN s ELSE RunOrig(Delta(s, Head(w)), Tail(w))

\* the original DFA, started in s, accepts w
AcceptsFrom(s, w) == RunOrig(s, w) \in finals

\* one step of the minimized DFA
DeltaMin(b, a) == IF b \in DOMAIN minimized THEN minimized[b][a] ELSE None

RECURSIVE RunMin(_, _)
RunMin(b, w) == IF w = <<>> THEN b ELSE RunMin(DeltaMin(b, Head(w)), Tail(w))

\* the minimized DFA, started in the start block, accepts w
AcceptsMin(w) == RunMin(start_p, w) \in final_parts

\* the start label and every source and target of the reduced DFA are
\* declared states (implied by: the start and all sources and targets of the
\* input are declared)
DeclaredInput ==
  /\ start_state \in Q
  /\ \A s \in DOMAIN dfa :
       /\ s \in Q
       /\ \A a \in DOMAIN dfa[s] : Truthy(dfa[s][a]) => dfa[s][a] \in Q

\* every state has a transition on every alphabet symbol
TotalDfa == \A s \in Q, a \in Sigma : Truthy(Tgt(dfa, s, a))

SameBlock(s, t) ==
  \E i \in 1..Len(partitions) : s \in partitions[i] /\ t \in partitions[i]

\* some string tells s from t (n states and the dead state are separated by
\* strings of length at most n - 1, and the inputs have at most
\* MaxStrLen + 1 states, so no longer string is needed)
Distinguished(s, t) == \E w \in Strings : AcceptsFrom(s, w) # AcceptsFrom(t, w)

\* the while loop has ended
LoopEnded == (pc = "refine" /\ ~changed) \/ pc \in {"draw", "summary", "done"}

\* a partition is held
PartitionHeld == pc = "refine" \/ pc \in {"draw", "summary", "done"}

\* the blocks reachable from the start block in the minimized table
RECURSIVE MinReach(_)
MinReach(S) ==
  LET T == S \cup ({DeltaMin(b, a) : b \in S, a \in Sigma} \ {None})
  IN  IF T = S THEN S ELSE MinReach(T)

\* the input is the scenario of section 8
IsScenario ==
  /\ alphabet = Scenario.alphabet
  /\ start_state = Scenario.start_state
  /\ finals = Scenario.finals
  /\ transition_input = Scenario.transition_input

Count(s, c) == Cardinality({i \in 1..Len(s) : s[i] = c})

\* the grammar state,symbol=target: exactly one "=", exactly one "," left of it
Grammatical(line) ==
  /\ Count(line, "=") = 1
  /\ Count(Split(line, "=")[1], ",") = 1

AllGrammatical ==
  \A i \in 1..Len(transition_input) : Grammatical(transition_input[i])

(* ---------------------------------------------------------------------- *)
(* Properties                                                             *)
(* ---------------------------------------------------------------------- *)

\* C1: language preservation. When the start and all sources and targets are
\* declared states, every string over the alphabet is accepted by the reduced
\* original DFA from start_state iff the minimized DFA accepts it from
\* start_p, acceptance being membership in finals resp. final_parts.
C1_LanguagePreserved ==
  (pc = "done" /\ DeclaredInput) =>
     \A w \in Strings : AcceptsFrom(start_state, w) <=> AcceptsMin(w)

\* a finished run with a partial table in which two states were merged and
\* strings of length two are accepted and rejected
C1_Witness ==
  /\ pc = "done" /\ DeclaredInput /\ ~TotalDfa
  /\ Len(partitions) < Cardinality(Q)
  /\ \E w \in Strings : Len(w) >= 2 /\ AcceptsFrom(start_state, w) /\ AcceptsMin(w)
  /\ \E w \in Strings : Len(w) >= 2 /\ ~AcceptsFrom(start_state, w) /\ ~AcceptsMin(w)

\* C2 as stated: on the scenario all four states are reachable and
\* refinement ends with the 3 blocks {C,D}, {A}, {B}; 3 minimized states.
C2_ScenarioThreeBlocks ==
  (IsScenario /\ pc = "done") =>
     /\ reachable_states = {"A", "B", "C", "D"}
     /\ Range(partitions) = {{"C", "D"}, {"A"}, {"B"}}
     /\ Cardinality(DOMAIN minimized) = 3

\* C2 amended: on the scenario all four states are reachable and refinement
\* ends with the 2 blocks {C,D} and {A,B}; the minimized DFA has 2 states.
C2_ScenarioTwoBlocks ==
  (IsScenario /\ pc = "done") =>
     /\ reachable_states = {"A", "B", "C", "D"}
     /\ states = <<"A", "B", "C", "D">>
     /\ Len(partitions) = 2
     /\ Range(partitions) = {{"C", "D"}, {"A", "B"}}
     /\ Cardinality(DOMAIN minimized) = 2

C2_Witness == IsScenario /\ pc = "done" /\ Len(partitions) = 2

\* C3 as stated: for declared start and targets, partial tables included,
\* two states share a final block iff no string distinguishes them, and the
\* number of blocks equals the number of states iff no two are equivalent.
C3_MyhillNerode ==
  (pc = "done" /\ DeclaredInput) =>
     /\ \A s, t \in Q : SameBlock(s, t) <=> ~Distinguished(s, t)
     /\ (Len(partitions) = Cardinality(Q))
          <=> (\A s, t \in Q : s # t => Distinguished(s, t))

\* C3 amended: for declared start and targets, two states that share a final
\* block are distinguished by no string; when moreover every state has a
\* transition on every alphabet symbol, states that no string distinguishes
\* share a block, and the number of blocks equals the number of distinct
\* states iff no two distinct states are equivalent.
C3_MyhillNerodeTotal ==
  (pc = "done" /\ DeclaredInput) =>
     /\ \A s, t \in Q : SameBlock(s, t) => ~Distinguished(s, t)
     /\ TotalDfa =>
          /\ \A s, t \in Q : ~Distinguished(s, t) => SameBlock(s, t)
          /\ (Len(partitions) = Cardinality(Q))
               <=> (\A s, t \in Q : s # t => Distinguished(s, t))

\* a total DFA of three states over a non-empty alphabet in which one pair
\* of states was merged and another pair was split
C3_Witness ==
  /\ pc = "done" /\ DeclaredInput /\ TotalDfa /\ Sigma # {}
  /\ Cardinality(Q) = 3
  /\ \E s, t \in Q : s # t /\ SameBlock(s, t) /\ ~Distinguished(s, t)
  /\ \E s, t \in Q : ~SameBlock(s, t) /\ Distinguished(s, t)

\* C4: with only grammatical lines no step of the core raises, and a
\* finished quotient construction has a table for every block.
C4_NoFatalError ==
  AllGrammatical =>
     /\ ~(pc = "crashed" /\ exc[2] \in {171, 175})
     /\ pc \in {"draw", "summary", "done"} =>
          DOMAIN minimized = {BlockName(i - 1) : i \in 1..Len(partitions)}

\* C5: a line that violates the grammar is reported and skipped, adds no
\* transition, and parsing goes on with the next line.
C5_PerLineRejection ==
  [][(pc = "parse" /\ ln <= Len(transition_input)
        /\ ~Grammatical(transition_input[ln]))
       => /\ pc' = "parse"
          /\ ln' = ln + 1
          /\ dfa' = dfa
          /\ invalid' = Append(invalid, Join(Strip(transition_input[ln])))]_vars

\* C6: whenever a partition is held, its blocks are pairwise disjoint and
\* their union is the set of states reachable from the start state.
C6_ProperCover ==
  PartitionHeld =>
     /\ \A i, j \in 1..Len(partitions) :
          i # j => partitions[i] \cap partitions[j] = {}
     /\ UNION Range(partitions) = reachable_states

\* C7: after the loop, for every block and symbol either all members have a
\* transition into one and the same block or no member has a transition.
C7_FixedPoint ==
  LoopEnded =>
     \A i \in 1..Len(partitions), a \in Sigma :
        \/ \E j \in 1..Len(partitions) :
              \A s \in partitions[i] :
                 Truthy(Tgt(dfa, s, a)) /\ Tgt(dfa, s, a) \in partitions[j]
        \/ \A s \in partitions[i] : ~Truthy(Tgt(dfa, s, a))

\* C8: the reduction leaves in `states` exactly the visited labels and in
\* dfa exactly the transitions whose source was visited.
C8_ReducedToVisited ==
  [][(pc = "parse" /\ pc' = "partition")
       => /\ Range(states') = reachable_states'
          /\ DOMAIN dfa' = DOMAIN dfa \cap reachable_states'
          /\ \A s \in DOMAIN dfa' : dfa'[s] = dfa[s]]_vars

\* C9: a round that does not end the loop leaves strictly more blocks, and
\* the number of blocks never exceeds the number of reachable states.
C9_RoundVariant ==
  [][(pc' = "refine")
       => /\ Len(partitions') <= Cardinality(reachable_states')
          /\ (pc = "refine" /\ changed') => Len(partitions') > Len(partitions)]_vars

\* C10: with declared start and targets every block of the minimized DFA is
\* reachable from the start block through the minimized table.
C10_NoUnreachableBlock ==
  (pc = "done" /\ DeclaredInput) => DOMAIN minimized \subseteq MinReach({start_p})

====
